---- MODULE Spec2Model ----
(***************************************************************************)
(* Model of BlueskyBot (bluesky_bot_scheduled.py): one invocation of       *)
(* post_next is one step.  The three backing files are the persistent      *)
(* state: scheduled_posts.json, posts.txt and bot_state.json.              *)
(***************************************************************************)
EXTENDS Integers, Sequences, FiniteSets, TLC

VARIABLES
    scheduled_posts,   \* contents of scheduled_posts.json: sequence of entries
    poolVersion,       \* which revision of posts.txt is on disk
    recent_posts,      \* contents of bot_state.json: the 'recent_posts' list
    year,              \* datetime.now().year
    day,               \* index into Calendar: datetime.now() month and day
    now,               \* number of invocations so far (time of day of the clock)
    sent,              \* per entry: successful dispatches in the current year
    last               \* record of the most recent invocation

vars == <<scheduled_posts, poolVersion, recent_posts, year, day, now, sent, last>>

----------------------------------------------------------------------------
(* Bounds of the model *)

MaxRuns == 2        \* invocations in one behaviour
MaxYears == 2       \* calendar years one behaviour spans
MaxSlack == 1       \* how far below the cap a long stored history may be

(* Program constant: recent_posts[-220:] *)
HistoryCap == 220

StartYear == 2024

(* The days of a year on which the clock can stand: <<month, day>> *)
Calendar == << <<1, 1>>, <<12, 25>> >>

(* A key that is missing from a JSON entry *)
Absent == "<absent>"

----------------------------------------------------------------------------
(* Clock formatting *)

Pad2(n) == IF n < 10 THEN "0" \o ToString(n) ELSE ToString(n)

(* today.strftime('%m-%d') *)
strftime_md(m, d) == Pad2(m) \o "-" \o Pad2(d)

(* datetime.now().isoformat(), with the invocation count as time of day *)
isoformat(y, m, d, t) == ToString(y) \o "-" \o strftime_md(m, d) \o "T" \o Pad2(t)

(* post_date[5:] *)
DateTail(post_date) == SubSeq(post_date, 6, Len(post_date))

----------------------------------------------------------------------------
(* File access *)

(* Variant of load_regular_posts that keeps blank lines *)
load_regular_posts_with_blanks(lines) == lines

(* [line.strip() for line in f if line.strip()]; lines are held stripped *)
load_regular_posts(lines) == SelectSeq(lines, LAMBDA l : l # "")

(* state.get('recent_posts', []) *)
load_state(stored) == stored

(* recent_posts[:220] *)
FirstN(s, n) == IF Len(s) <= n THEN s ELSE SubSeq(s, 1, n)

(* recent_posts[-220:] *)
LastN(s, n) == IF Len(s) <= n THEN s ELSE SubSeq(s, Len(s) - n + 1, Len(s))

(* Variant of save_state that keeps the oldest entries *)
save_state_oldest(recent) == FirstN(recent, HistoryCap)

(* save_state: what bot_state.json holds afterwards *)
save_state(recent) == LastN(recent, HistoryCap)

----------------------------------------------------------------------------
(* Annual reset *)

(* today.month != 1 or today.day != 1  ->  return *)
IsNewYearsDay(m, d) == m = 1 /\ d = 1

(* Variant of ResetEntry that leaves the posted_at timestamp in place *)
ResetEntryKeepingStamp(post) ==
    IF post.posted THEN [post EXCEPT !.posted = FALSE] ELSE post

(* the loop body of reset_annual_posts_if_new_year *)
ResetEntry(post) ==
    IF post.posted
    THEN [post EXCEPT !.posted = FALSE, !.posted_at = Absent]
    ELSE post

(* reset_annual_posts_if_new_year: the collection the file holds afterwards *)
reset_annual_posts_if_new_year(posts, m, d) ==
    IF ~IsNewYearsDay(m, d)
    THEN posts
    ELSE [i \in DOMAIN posts |-> ResetEntry(posts[i])]

----------------------------------------------------------------------------
(* Date match *)

(* len(post_date) >= 10 and post_date[5:] == today_month_day *)
MatchesDay(post, md) ==
    /\ Len(post.date) >= 10
    /\ DateTail(post.date) = md

(* Variant of DueIndexes without the 'already sent this year' test *)
DueIndexesIgnoringPosted(posts, md) ==
    {i \in DOMAIN posts : MatchesDay(posts[i], md)}

(* Variant of DueIndexes that passes over entries without a text *)
DueIndexesWithText(posts, md) ==
    {i \in DOMAIN posts : MatchesDay(posts[i], md) /\ ~posts[i].posted
                                                  /\ posts[i].text # ""}

(* the entries the loop of find_scheduled_post_for_today returns on *)
DueIndexes(posts, md) ==
    {i \in DOMAIN posts : MatchesDay(posts[i], md) /\ ~posts[i].posted}

Min(S) == CHOOSE x \in S : \A y \in S : x <= y

Max(S) == CHOOSE x \in S : \A y \in S : x >= y

(* Variant of find_scheduled_post_for_today that keeps the last match *)
find_scheduled_post_last_match(posts, md) ==
    IF DueIndexes(posts, md) = {} THEN 0 ELSE Max(DueIndexes(posts, md))

(* find_scheduled_post_for_today: index of the returned entry, 0 for None *)
find_scheduled_post_for_today(posts, md) ==
    IF DueIndexes(posts, md) = {} THEN 0 ELSE Min(DueIndexes(posts, md))

(* Variant of MarkTest without the month-day comparison *)
MarkTestAnyFullDate(post, md) == Len(post.date) >= 10

(* the test of the loop of mark_scheduled_post_as_sent *)
MarkTest(post, md) ==
    /\ Len(post.date) >= 10
    /\ DateTail(post.date) = md

(* Variant of mark_scheduled_post_as_sent that stops at the first match *)
mark_first_match_only(posts, md, stamp) ==
    [i \in DOMAIN posts |->
        IF MarkTest(posts[i], md) /\ \A j \in 1..(i - 1) : ~MarkTest(posts[j], md)
        THEN [posts[i] EXCEPT !.posted = TRUE, !.posted_at = stamp]
        ELSE posts[i]]

(* mark_scheduled_post_as_sent: the collection the file holds afterwards *)
mark_scheduled_post_as_sent(posts, md, stamp) ==
    [i \in DOMAIN posts |->
        IF MarkTest(posts[i], md)
        THEN [posts[i] EXCEPT !.posted = TRUE, !.posted_at = stamp]
        ELSE posts[i]]

----------------------------------------------------------------------------
(* Generic rotation *)

InSeq(x, s) == \E i \in DOMAIN s : s[i] = x

(* Variant of AvailablePosts that compares against the newest entry only *)
AvailablePostsNotNewest(pool, recent) ==
    SelectSeq(pool, LAMBDA p : recent = << >> \/ p # recent[Len(recent)])

(* Variant of AvailablePosts that filters nothing *)
AvailablePostsUnfiltered(pool, recent) == pool

(* [p for p in regular_posts if p not in recent_posts] *)
AvailablePosts(pool, recent) == SelectSeq(pool, LAMBDA p : ~InSeq(p, recent))

(* if not available_posts: available_posts = regular_posts *)
CandidatePosts(pool, recent) ==
    IF AvailablePosts(pool, recent) = <<>> THEN pool ELSE AvailablePosts(pool, recent)

(* Variant of RecentAfterExhaustion that never clears the history *)
RecentNeverCleared(pool, recent) == recent

(* if not available_posts: recent_posts = [] *)
RecentAfterExhaustion(pool, recent) ==
    IF AvailablePosts(pool, recent) = <<>> THEN <<>> ELSE recent

----------------------------------------------------------------------------
(* The files an installation can start from *)

Entry(date, text, posted, posted_at) ==
    [date |-> date, text |-> text, posted |-> posted, posted_at |-> posted_at]

InitialCollections ==
    { << >>,
      << Entry("2023-12-25", "xmas", FALSE, Absent),
         Entry("2024-01-01", "newyear", FALSE, Absent) >>,
      << Entry("2023-01-01", "ny1", TRUE, "2023-01-01T00"),
         Entry("2022-01-01", "ny2", FALSE, Absent),
         Entry("2023-12-25", "xmas", TRUE, "2023-12-25T00") >>,
      << Entry("2023-12-25", "", FALSE, Absent),
         Entry("2021-12-25", "xmas", FALSE, Absent),
         Entry("2023-11-05", "bonfire", TRUE, "2023-11-05T00") >>,
      << Entry("2023-12-25", "xmas1", FALSE, Absent),
         Entry("2022-12-25", "xmas2", FALSE, Absent) >>,
      << Entry("12-25", "short", FALSE, Absent),
         Entry("2023-12-25T09:00", "long", FALSE, Absent),
         Entry("2020-01-01", "newyear", TRUE, "2024-01-01T00") >> }

(* Successive revisions of posts.txt *)
PoolVersions ==
    << << "" >>, << "a", "b" >>, << "a", "", "b", "c" >>, << "a", "a" >>, << "a" >> >>

Filler(n) == [i \in 1..n |-> "h" \o ToString(i)]

ShortHistories == { << >>, << "a", "b" >>, << "A", "b" >> }

(* Histories at and just below the cap, as left by an earlier pool *)
LongHistories == { Filler(HistoryCap - k) : k \in 0..MaxSlack }

----------------------------------------------------------------------------
(* contents of posts.txt: sequence of lines *)
regular_posts == PoolVersions[poolVersion]

----------------------------------------------------------------------------
(* Record of one invocation of post_next.  retry: the invocation before it *)
(* failed at dispatch on the same day with the same posts.txt.  persisted: *)
(* the writes of the run reached the files.  exit: the process exit code,  *)
(* -1 while no process has exited.                                         *)

NoRun ==
    [ran |-> FALSE, year |-> 0, day |-> 0, path |-> "none", outcome |-> "none",
     idx |-> 0, text |-> "", attempted |-> FALSE, retry |-> FALSE,
     persisted |-> TRUE, exit |-> -1,
     before |-> << >>, afterReset |-> << >>,
     version |-> 0, history |-> << >>, cleared |-> FALSE,
     candidates |-> << >>]

Init ==
    /\ \/ /\ scheduled_posts \in InitialCollections
          /\ recent_posts \in ShortHistories
       \/ /\ scheduled_posts = << >>
          /\ recent_posts \in LongHistories
    /\ poolVersion \in DOMAIN PoolVersions
    /\ year = StartYear
    /\ day = Len(Calendar)
    /\ now = 0
    /\ sent = [i \in DOMAIN scheduled_posts |-> 0]
    /\ last = NoRun

----------------------------------------------------------------------------
(* Outcomes of the dispatcher: authenticate() and client.send_post() *)
DispatchOutcomes == {"sent", "auth_fail", "send_fail"}

(* The run before this one failed at dispatch, same day, same posts.txt *)
IsRetry(r, y, d, v) ==
    /\ r.ran
    /\ r.outcome \in {"auth_fail", "send_fail"}
    /\ r.year = y /\ r.day = d /\ r.version = v

(* Variant of Dispatched that takes a raising send_post() for a success *)
DispatchedUnlessAuthFails(outcome) == outcome # "auth_fail"

(* authenticate() returned True and send_post() did not raise *)
Dispatched(outcome) == outcome = "sent"

(* Variant of Returned that reports a failure when the state was not saved *)
ReturnedOnlyIfPersisted(outcome, writable) == outcome = "sent" /\ writable

(* the value post_next returns: True after send_post(), whatever the save did *)
Returned(outcome, writable) == Dispatched(outcome)

(* main: sys.exit(0) if success else sys.exit(1) *)
exit_code(success) == IF success THEN 0 ELSE 1

(* open(..., 'w') and json.dump: what the file holds afterwards *)
Written(new, old, writable) == IF writable THEN new ELSE old

(* post_next, lines 204-227: a scheduled post is due *)
PostScheduled(run, afterReset, idx, stamp, dispatch, writable) ==
    LET post_text == afterReset[idx].text
        post_date == afterReset[idx].date
        post_month_day == IF Len(post_date) >= 10 THEN DateTail(post_date) ELSE ""
        outcome == IF post_text = "" THEN "no_text" ELSE dispatch
    IN  /\ scheduled_posts' =
             IF Dispatched(outcome)
             THEN Written(mark_scheduled_post_as_sent(afterReset, post_month_day, stamp),
                          afterReset, writable)
             ELSE afterReset
        /\ sent' = IF Dispatched(outcome) THEN [sent EXCEPT ![idx] = @ + 1] ELSE sent
        /\ last' = [run EXCEPT !.path = "scheduled", !.outcome = outcome,
                               !.idx = idx, !.text = post_text,
                               !.attempted = (outcome \in {"sent", "send_fail"}),
                               !.exit = exit_code(Returned(outcome, writable))]
        /\ UNCHANGED recent_posts

(* post_next, lines 229-269: regular rotation *)
PostRegular(run, afterReset, dispatch, writable) ==
    LET pool == load_regular_posts(regular_posts)
        history == load_state(recent_posts)
        available_posts == CandidatePosts(pool, history)
        recent == RecentAfterExhaustion(pool, history)
    IN  IF pool = << >>
        THEN /\ scheduled_posts' = afterReset
             /\ last' = [run EXCEPT !.path = "regular", !.outcome = "no_content",
                                    !.exit = exit_code(FALSE)]
             /\ UNCHANGED <<recent_posts, sent>>
        ELSE \E pick \in DOMAIN available_posts :
               LET post_text == available_posts[pick]
                   passed == Append(recent, post_text)
               IN  /\ scheduled_posts' = afterReset
                   /\ recent_posts' =
                        IF Dispatched(dispatch)
                        THEN Written(save_state(passed), recent_posts, writable)
                        ELSE recent_posts
                   /\ last' = [run EXCEPT !.path = "regular", !.outcome = dispatch,
                                          !.text = post_text,
                                          !.attempted = (dispatch \in {"sent", "send_fail"}),
                                          !.history = history,
                                          !.cleared = (AvailablePosts(pool, history) = << >>),
                                          !.candidates = available_posts,
                                          !.exit = exit_code(Returned(dispatch, writable))]
                   /\ UNCHANGED sent

(* post_next: one invocation of the bot *)
post_next(dispatch, writable) ==
    /\ now < MaxRuns
    /\ LET m == Calendar[day][1]
           d == Calendar[day][2]
           today_month_day == strftime_md(m, d)
           afterReset == Written(reset_annual_posts_if_new_year(scheduled_posts, m, d),
                                 scheduled_posts, writable)
           idx == find_scheduled_post_for_today(afterReset, today_month_day)
           stamp == isoformat(year, m, d, now + 1)
           run == [NoRun EXCEPT !.ran = TRUE, !.year = year, !.day = day,
                                !.version = poolVersion,
                                !.retry = IsRetry(last, year, day, poolVersion),
                                !.persisted = writable,
                                !.before = scheduled_posts, !.afterReset = afterReset,
                                !.history = recent_posts]
       IN  IF idx # 0
           THEN PostScheduled(run, afterReset, idx, stamp, dispatch, writable)
           ELSE PostRegular(run, afterReset, dispatch, writable)
    /\ now' = now + 1
    /\ UNCHANGED <<poolVersion, year, day>>

(* The clock moves on to the next day of the calendar *)
NextDay ==
    /\ \/ /\ day < Len(Calendar)
          /\ day' = day + 1
          /\ UNCHANGED <<year, sent>>
       \/ /\ day = Len(Calendar)
          /\ year < StartYear + MaxYears - 1
          /\ day' = 1
          /\ year' = year + 1
          /\ sent' = [i \in DOMAIN sent |-> 0]
    /\ UNCHANGED <<scheduled_posts, poolVersion, recent_posts, now, last>>

(* posts.txt is edited between invocations *)
EditPool ==
    /\ poolVersion < Len(PoolVersions)
    /\ poolVersion' = poolVersion + 1
    /\ UNCHANGED <<scheduled_posts, recent_posts, year, day, now, sent, last>>

(* The bot is invoked with its credentials set and its files writable *)
Next ==
    \/ \E dispatch \in DispatchOutcomes : post_next(dispatch, TRUE)
    \/ NextDay
    \/ EditPool

Spec == Init /\ [][Next]_vars

(* main, lines 279-281: BLUESKY_HANDLE or BLUESKY_PASSWORD is not set *)
MissingCredentials ==
    /\ now < MaxRuns
    /\ now' = now + 1
    /\ last' = [NoRun EXCEPT !.year = year, !.day = day, !.version = poolVersion,
                             !.outcome = "no_credentials",
                             !.before = scheduled_posts, !.afterReset = scheduled_posts,
                             !.history = recent_posts,
                             !.exit = 1]
    /\ UNCHANGED <<scheduled_posts, poolVersion, recent_posts, year, day, sent>>

(* main: one process, from the credential check to sys.exit *)
main(credentials, dispatch, writable) ==
    IF credentials THEN post_next(dispatch, writable) ELSE MissingCredentials

(* The bot as a process on a fixed posts.txt: credentials may be missing,  *)
(* writes may fail                                                         *)
NextMain ==
    \/ \E dispatch \in DispatchOutcomes, writable \in BOOLEAN :
          main(TRUE, dispatch, writable)
    \/ main(FALSE, "none", TRUE)
    \/ NextDay

SpecMain == Init /\ [][NextMain]_vars

(* posts.txt is never edited and holds distinct texts; no history yet *)
InitCycle ==
    /\ Init
    /\ recent_posts = << >>
    /\ load_regular_posts(regular_posts) # << >>
    /\ \A i, j \in DOMAIN regular_posts :
          regular_posts[i] = regular_posts[j] => i = j

NextCycle ==
    \/ \E dispatch \in DispatchOutcomes : post_next(dispatch, TRUE)
    \/ NextDay

SpecCycle == InitCycle /\ [][NextCycle]_vars

----------------------------------------------------------------------------
(* Vocabulary of the properties *)

(* The month-day key of the day an invocation ran on *)
RunMonthDay(r) == strftime_md(Calendar[r.day][1], Calendar[r.day][2])

RanOnNewYearsDay(r) == r.ran /\ Calendar[r.day] = <<1, 1>>

DispatchFailed(r) == r.ran /\ r.outcome \in {"auth_fail", "send_fail"}

SameDay(r1, r2) == r1.ran /\ r2.ran /\ r1.year = r2.year /\ r1.day = r2.day

(* Years a stored date may carry *)
StoredYears == {"2020", "2021", "2022", "2023", "2024"}

(* The entry's date is some year's occurrence of the month-day md *)
HasMonthDay(post, md) == \E y \in StoredYears : post.date = y \o "-" \o md

(* Entry i of collection c is due on the month-day md *)
IsDue(c, i, md) == HasMonthDay(c[i], md) /\ ~c[i].posted

(* Collection a is collection b with every posted entry reset *)
IsResetOf(a, b) ==
    /\ Len(a) = Len(b)
    /\ \A i \in DOMAIN b :
          /\ b[i].posted =>
                /\ a[i].posted = FALSE
                /\ a[i].posted_at = Absent
                /\ a[i].date = b[i].date
                /\ a[i].text = b[i].text
          /\ ~b[i].posted => a[i] = b[i]

----------------------------------------------------------------------------
(* C1: within one calendar year every Date-Anchored Post is successfully   *)
(* dispatched at most once, whatever the mix of successes and failures,    *)
(* also for entries dated January 1st and on days with several runs.       *)
C1_AtMostOncePerYear == \A i \in DOMAIN sent : sent[i] <= 1

(* C2 as stated: after a run whose authentication or send failed, both     *)
(* files are identical to their contents before the run, on every date.    *)
C2_FailureLeavesFilesIdentical ==
    DispatchFailed(last) =>
        /\ scheduled_posts = last.before
        /\ recent_posts = last.history

(* C2 as amended: after a run whose authentication or send failed, the     *)
(* Recency History is identical to its pre-run contents, and the           *)
(* Date-Anchored collection is identical to its pre-run contents except    *)
(* that on January 1st it is the pre-run collection with the annual reset  *)
(* applied.                                                                *)
C2_FailureLeavesFilesUpToReset ==
    DispatchFailed(last) =>
        /\ recent_posts = last.history
        /\ ~RanOnNewYearsDay(last) => scheduled_posts = last.before
        /\ RanOnNewYearsDay(last) => IsResetOf(scheduled_posts, last.before)

C2_Witness ==
    /\ DispatchFailed(last)
    /\ RanOnNewYearsDay(last)
    /\ scheduled_posts # last.before

C4_SecondNewYearRunResetsNothing ==
    [][(RanOnNewYearsDay(last) /\ now' = now + 1 /\ SameDay(last, last')) =>
          last'.afterReset = last'.before]_vars

(* C5: on January 1st the reset pass sets posted = FALSE and removes       *)
(* posted_at on every entry that had posted = TRUE and leaves the others   *)
(* untouched; a second pass right after it changes nothing; on any other   *)
(* date the pass changes nothing.                                          *)
C5_ResetPass ==
    last.ran =>
        IF RanOnNewYearsDay(last)
        THEN /\ IsResetOf(last.afterReset, last.before)
             /\ reset_annual_posts_if_new_year(last.afterReset, 1, 1) = last.afterReset
        ELSE last.afterReset = last.before

C5_Witness ==
    /\ RanOnNewYearsDay(last)
    /\ \E i \in DOMAIN last.before : last.before[i].posted
    /\ \E i \in DOMAIN last.before : ~last.before[i].posted
    /\ last.afterReset # last.before

(* The texts of a sequence *)
Range(s) == {s[i] : i \in DOMAIN s}

(* The generic pool the run loaded: the non-blank lines of posts.txt *)
PoolOf(r) == SelectSeq(PoolVersions[r.version], LAMBDA l : l # "")

(* Sequence t is the end of sequence s *)
IsSuffixOf(t, s) ==
    /\ Len(t) <= Len(s)
    /\ \A k \in DOMAIN t : t[k] = s[Len(s) - Len(t) + k]

(* The run went to generic rotation with a non-empty pool *)
ChoseRegular(r) == r.ran /\ r.path = "regular" /\ r.outcome # "no_content"

(* C6 as stated: after a run that failed at dispatch, the next run on the  *)
(* same day with the same input files selects the same text, on the        *)
(* date-anchored path and on the generic path.                             *)
C6_RetrySelectsSameText ==
    [][(now' = now + 1 /\ last'.retry) => last'.text = last.text]_vars

(* C6 as amended: after a run that failed at dispatch, the next run on the *)
(* same day with the same input files takes the same path; on the          *)
(* date-anchored path it selects the same entry and text, and on the       *)
(* generic path it draws from the same candidate set, which contains the   *)
(* text of the failed run (the random choice itself may differ).           *)
C6_RetrySelectsSameCandidates ==
    [][(now' = now + 1 /\ last'.retry) =>
          /\ DispatchFailed(last)
          /\ SameDay(last, last')
          /\ last'.path = last.path
          /\ last'.path = "scheduled" =>
                /\ last'.idx = last.idx
                /\ last'.text = last.text
          /\ last'.path = "regular" =>
                /\ last'.candidates = last.candidates
                /\ last'.cleared = last.cleared
                /\ last.text \in Range(last'.candidates)
                /\ last'.text \in Range(last'.candidates)]_vars

C6_Witness ==
    /\ last.ran
    /\ last.retry
    /\ last.path = "scheduled"
    /\ last.outcome = "sent"

(* C7 as stated: when some pool entry is absent from the history H, the    *)
(* chosen text is a pool member not in H, and after a successful send the  *)
(* persisted history is the last 220 entries of H followed by the chosen   *)
(* text.                                                                   *)
C7_ChosenFreshAndAppendedToLast220 ==
    (ChoseRegular(last) /\ Range(PoolOf(last)) \ Range(last.history) # {}) =>
        /\ last.text \in Range(PoolOf(last)) \ Range(last.history)
        /\ last.outcome = "sent" =>
              recent_posts = LastN(last.history, HistoryCap) \o <<last.text>>

(* C7 as amended: when some pool entry is absent from the history H, the   *)
(* chosen text is a pool member not in H, and after a successful send the  *)
(* persisted history is the last 220 entries of (H followed by the chosen  *)
(* text): all of H and the text when H has fewer than 220 entries, else    *)
(* the last 219 entries of H and the text.                                 *)
C7_ChosenFreshAndLast220OfAppended ==
    (ChoseRegular(last) /\ Range(PoolOf(last)) \ Range(last.history) # {}) =>
        /\ last.text \in Range(PoolOf(last)) \ Range(last.history)
        /\ last.outcome = "sent" =>
              /\ IsSuffixOf(recent_posts, last.history \o <<last.text>>)
              /\ Len(recent_posts) =
                    IF Len(last.history) < HistoryCap
                    THEN Len(last.history) + 1
                    ELSE HistoryCap

C7_Witness ==
    /\ ChoseRegular(last)
    /\ last.outcome = "sent"
    /\ PoolOf(last) = <<"a", "b", "c">>
    /\ last.history = <<"a", "b">>
    /\ last.text = "c"
    /\ recent_posts = <<"a", "b", "c">>

(* C8: when the pool P is non-empty and every entry of P is in the         *)
(* history, the candidate set is the full pool, and after a successful     *)
(* send the persisted history is exactly <<chosen>> with chosen in P.      *)
C8_ExhaustionStartsFreshCycle ==
    (ChoseRegular(last) /\ Range(PoolOf(last)) \subseteq Range(last.history)) =>
        /\ last.candidates = PoolOf(last)
        /\ last.cleared
        /\ last.text \in Range(PoolOf(last))
        /\ last.outcome = "sent" => recent_posts = <<last.text>>

C8_Witness ==
    /\ ChoseRegular(last)
    /\ last.outcome = "sent"
    /\ Range(PoolOf(last)) \subseteq Range(last.history)
    /\ Len(last.history) > 1
    /\ recent_posts = <<last.text>>

(* The sequence the run handed to save_state *)
PassedToSave(r) == (IF r.cleared THEN << >> ELSE r.history) \o <<r.text>>

Saved(r) == ChoseRegular(r) /\ r.outcome = "sent"

(* C9: after any save of the Recency History the persisted history has at  *)
(* most 220 entries, and it is the end of the sequence that was passed in: *)
(* truncation drops the oldest entries and keeps the order of the rest.    *)
C9_SavedHistoryCapped ==
    Saved(last) =>
        /\ Len(recent_posts) <= HistoryCap
        /\ IsSuffixOf(recent_posts, PassedToSave(last))
        /\ Len(PassedToSave(last)) <= HistoryCap => recent_posts = PassedToSave(last)
        /\ Len(PassedToSave(last)) > HistoryCap => Len(recent_posts) = HistoryCap

C9_Witness ==
    /\ Saved(last)
    /\ Len(PassedToSave(last)) > HistoryCap
    /\ Len(recent_posts) = HistoryCap

(* No entry is due and the pool is empty when the run selects *)
NothingToPost(r) ==
    /\ r.ran
    /\ \A i \in DOMAIN r.afterReset : ~IsDue(r.afterReset, i, RunMonthDay(r))
    /\ \A k \in DOMAIN PoolVersions[r.version] : PoolVersions[r.version][k] = ""

(* C10 as stated: when no Date-Anchored entry is due today and the generic *)
(* pool is empty, on any date, the run fails, no send is attempted and     *)
(* neither file is mutated.                                                *)
C10_NoContentMutatesNothing ==
    NothingToPost(last) =>
        /\ last.outcome = "no_content"
        /\ ~last.attempted
        /\ scheduled_posts = last.before
        /\ recent_posts = last.history

(* C10 as amended: when no Date-Anchored entry is due today once the       *)
(* annual reset pass has run and the generic pool is empty, the run fails, *)
(* no send is attempted, the Recency History is not mutated, and the       *)
(* Date-Anchored collection is not mutated except that on January 1st it   *)
(* is the pre-run collection with the annual reset applied.                *)
C10_NoContentMutatesOnlyByReset ==
    NothingToPost(last) =>
        /\ last.outcome = "no_content"
        /\ ~last.attempted
        /\ recent_posts = last.history
        /\ ~RanOnNewYearsDay(last) => scheduled_posts = last.before
        /\ RanOnNewYearsDay(last) => IsResetOf(scheduled_posts, last.before)

C10_Witness ==
    /\ NothingToPost(last)
    /\ last.outcome = "no_content"
    /\ RanOnNewYearsDay(last)
    /\ scheduled_posts # last.before

----------------------------------------------------------------------------
(* A process has run and exited *)
Exited(r) == r.exit # -1

(* C11: the process exits with code 0 if and only if one post was          *)
(* successfully dispatched in that run; missing credentials, no content,   *)
(* authentication failure and send failure each exit non-zero, and a       *)
(* failed save after a successful dispatch still exits 0.                  *)
C11_ExitZeroIffDispatched ==
    Exited(last) =>
        /\ last.exit \in {0, 1}
        /\ last.exit = 0 <=> (last.attempted /\ last.outcome = "sent")
        /\ last.outcome \in {"no_credentials", "no_content", "no_text",
                             "auth_fail", "send_fail"} => last.exit # 0
        /\ (last.outcome = "sent" /\ ~last.persisted) => last.exit = 0
        /\ last.outcome = "no_credentials" =>
              /\ ~last.attempted
              /\ scheduled_posts = last.before
              /\ recent_posts = last.history

C11_Witness ==
    /\ Exited(last)
    /\ last.outcome = "sent"
    /\ ~last.persisted
    /\ last.exit = 0
    /\ scheduled_posts = last.before
    /\ recent_posts = last.history

(* The entries of collection c whose date falls on the month-day md *)
Matching(c, md) == {i \in DOMAIN c : HasMonthDay(c[i], md)}

(* The run fell through to generic rotation and marked nothing *)
FellThrough(r) ==
    /\ r.path = "regular"
    /\ r.idx = 0
    /\ scheduled_posts = r.afterReset
    /\ PoolOf(r) # << >> => r.text \in Range(PoolOf(r))
    /\ PoolOf(r) = << >> => (r.outcome = "no_content" /\ ~r.attempted)

(* C12 as stated: on every date on which every entry matching today's      *)
(* month-day has posted = TRUE in the stored collection, the run sends     *)
(* none of them and falls through to generic rotation.                     *)
C12_PostedEntriesNeverResent ==
    (last.ran /\ Matching(last.before, RunMonthDay(last)) # {}
              /\ \A i \in Matching(last.before, RunMonthDay(last)) : last.before[i].posted)
        => FellThrough(last)

(* C12 as amended: when every entry matching today's month-day has         *)
(* posted = TRUE once the annual reset pass has run (so on every date but  *)
(* January 1st, where the pass clears the flags first), the run sends none *)
(* of them and falls through to generic rotation, choosing its text from   *)
(* the generic pool.                                                       *)
C12_PostedEntriesFallThrough ==
    (last.ran /\ Matching(last.afterReset, RunMonthDay(last)) # {}
              /\ \A i \in Matching(last.afterReset, RunMonthDay(last)) :
                    last.afterReset[i].posted)
        => FellThrough(last)

C12_Witness ==
    /\ last.ran
    /\ Matching(last.afterReset, RunMonthDay(last)) # {}
    /\ \A i \in Matching(last.afterReset, RunMonthDay(last)) : last.afterReset[i].posted
    /\ last.path = "regular"
    /\ last.outcome = "sent"

(* The month-day keys of the calendar *)
CalendarKeys == {strftime_md(Calendar[k][1], Calendar[k][2]) : k \in DOMAIN Calendar}

(* Two different entries of collection c share a month-day key *)
SameKey(c, i, j) ==
    /\ i # j
    /\ \E md \in CalendarKeys : HasMonthDay(c[i], md) /\ HasMonthDay(c[j], md)

(* C13: when several entries share a month-day key, the run on that day    *)
(* sends the first unposted one in storage order, and no other entry with  *)
(* that key is sent by a later run in the same year.                       *)
C13_OneEntryPerKeyPerYear ==
    /\ \A i, j \in DOMAIN sent :
          SameKey(scheduled_posts, i, j) => ~(sent[i] > 0 /\ sent[j] > 0)
    /\ (last.ran /\ last.path = "scheduled" /\ last.outcome = "sent") =>
          /\ IsDue(last.afterReset, last.idx, RunMonthDay(last))
          /\ \A j \in 1..(last.idx - 1) : ~IsDue(last.afterReset, j, RunMonthDay(last))

C13_Witness ==
    /\ last.ran
    /\ last.year = year
    /\ last.path = "regular"
    /\ \E i, j \in DOMAIN sent :
          /\ SameKey(scheduled_posts, i, j)
          /\ HasMonthDay(scheduled_posts[j], RunMonthDay(last))
          /\ sent[i] > 0
          /\ sent[j] = 0
          /\ scheduled_posts[j].text # ""

SentScheduled(r) == r.ran /\ r.path = "scheduled" /\ r.outcome = "sent"

C15_HistoryAndFlagsFrame ==
    [][/\ recent_posts' # recent_posts =>
             (now' = now + 1 /\ last'.path = "regular" /\ last'.outcome = "sent")
       /\ (now' = now + 1 /\ last'.path = "regular") =>
             /\ Len(scheduled_posts') = Len(scheduled_posts)
             /\ \A i \in DOMAIN scheduled_posts :
                   scheduled_posts'[i].posted # scheduled_posts[i].posted =>
                       (RanOnNewYearsDay(last') /\ scheduled_posts[i].posted)]_vars

C15_Witness ==
    /\ DispatchFailed(last)
    /\ last.path = "regular"
    /\ last.cleared
    /\ last.history # << >>
    /\ recent_posts = last.history

(* The collection holds posted_at exactly on its posted entries *)
StampedIffPosted(c) == \A i \in DOMAIN c : c[i].posted <=> c[i].posted_at # Absent

(* C16: starting from a collection in which posted_at is present exactly   *)
(* on the entries with posted = TRUE, in every reachable state every entry *)
(* has posted_at present if and only if its posted flag is true.           *)
C16_PostedAtIffPosted ==
    /\ StampedIffPosted(scheduled_posts)
    /\ last.ran => (StampedIffPosted(last.before) /\ StampedIffPosted(last.afterReset))

C16_Witness ==
    /\ SentScheduled(last)
    /\ RanOnNewYearsDay(last)
    /\ \E i \in DOMAIN last.before :
          last.before[i].posted /\ ~last.afterReset[i].posted
    /\ \E j \in DOMAIN scheduled_posts :
          ~last.afterReset[j].posted /\ scheduled_posts[j].posted

(* The generic pool of run r holds at least two distinct texts *)
TwoDistinctTexts(r) == Cardinality(Range(PoolOf(r))) >= 2

(* The text of the successful generic send before run r: the newest entry  *)
(* of the history that run r loaded, every text of which is in r's pool.   *)
FollowsGenericSend(r) ==
    /\ Saved(r)
    /\ r.history # << >>
    /\ Range(r.history) \subseteq Range(PoolOf(r))

PreviousText(r) == r.history[Len(r.history)]

(* C17 as stated: with a fixed pool of at least two distinct texts, no two *)
(* consecutive successful generic-pool sends dispatch the same text, also  *)
(* across the point where the history is exhausted and cleared.            *)
C17_NoConsecutiveRepeat ==
    (FollowsGenericSend(last) /\ TwoDistinctTexts(last)) =>
        last.text # PreviousText(last)

(* C17 as amended: with a fixed pool of at least two distinct texts, two   *)
(* consecutive successful generic-pool sends dispatch different texts      *)
(* unless the second one found every pool text in the history and cleared  *)
(* it; that send chooses from the whole pool and may repeat the text sent  *)
(* just before it.  A successful send leaves its text newest in history.   *)
C17_NoConsecutiveRepeatWithinCycle ==
    /\ Saved(last) => recent_posts[Len(recent_posts)] = last.text
    /\ (FollowsGenericSend(last) /\ TwoDistinctTexts(last)) =>
          /\ ~last.cleared => last.text # PreviousText(last)
          /\ last.cleared =>
                /\ Range(PoolOf(last)) \subseteq Range(last.history)
                /\ last.text \in Range(PoolOf(last))

C17_Witness ==
    /\ FollowsGenericSend(last)
    /\ TwoDistinctTexts(last)
    /\ last.cleared
    /\ last.text = PreviousText(last)
    /\ recent_posts = << last.text >>

(* No text occurs twice in the sequence *)
NoDuplicates(s) == Cardinality(Range(s)) = Len(s)

C19_HistoryStaysDuplicateFree == NoDuplicates(recent_posts)

C19_Witness ==
    /\ Saved(last)
    /\ ~NoDuplicates(PoolOf(last))
    /\ Len(last.history) >= 2
    /\ recent_posts = Append(last.history, last.text)

(* The entries of the collection run r selected from that are due that day *)
DueOn(r) == {i \in DOMAIN r.afterReset : IsDue(r.afterReset, i, RunMonthDay(r))}

(* The first due entry of run r has no text *)
FirstDueHasNoText(r) ==
    /\ r.ran
    /\ DueOn(r) # {}
    /\ r.afterReset[Min(DueOn(r))].text = ""

(* C20: when the first unposted entry matching today's month-day has an    *)
(* empty or missing text, the run fails without attempting a send, without *)
(* marking the entry and without falling through to generic rotation, even *)
(* if a later entry of the day or the generic pool has content; and every  *)
(* further run on that day fails the same way.                             *)
C20_EmptyTextFailsRun ==
    /\ [](FirstDueHasNoText(last) =>
             /\ last.outcome = "no_text"
             /\ last.path = "scheduled"
             /\ last.idx = Min(DueOn(last))
             /\ ~last.attempted
             /\ last.exit = 1
             /\ scheduled_posts = last.afterReset
             /\ ~scheduled_posts[last.idx].posted
             /\ recent_posts = last.history)
    /\ [][(last.outcome = "no_text" /\ now' = now + 1 /\ SameDay(last, last')) =>
             /\ last'.outcome = "no_text"
             /\ last'.idx = last.idx
             /\ ~last'.attempted
             /\ scheduled_posts' = scheduled_posts
             /\ recent_posts' = recent_posts]_vars

C20_Witness ==
    /\ now = 2
    /\ last.year = StartYear
    /\ FirstDueHasNoText(last)
    /\ last.outcome = "no_text"
    /\ \E j \in DueOn(last) : j > last.idx /\ last.afterReset[j].text # ""
    /\ load_regular_posts(PoolVersions[last.version]) # << >>

============================================================================
